---- MODULE Spec2Model ----
(***************************************************************************)
(* A model of package gopromise (promise.go).                              *)
(*                                                                         *)
(* heap   : the Promise[T] objects allocated so far, by address 1..Len     *)
(* tasks  : the goroutines; tasks[1] is the calling program ("main")       *)
(* chans  : the buffered channels made by All and Race                     *)
(* slices : the result slices made by All                                  *)
(*                                                                         *)
(* A goroutine takes one step per operation on shared state that another   *)
(* goroutine can tell from its neighbours: a channel send or receive, a    *)
(* write to the result slice, the start of a goroutine, a settlement call. *)
(* p.resolve and p.reject run under p.mutex from their first statement to  *)
(* their last, so each call is one atomic update of the promise.           *)
(* Await returns fields that no longer change, so where the code after an  *)
(* Await leads to a settlement call with no other such operation between,  *)
(* the Await and the call are one step.  The deferred recovery of New's    *)
(* goroutine runs in the step of the executor's last operation.  The       *)
(* closures that All, Race and the flattening branch pass to Then / Catch  *)
(* resolve their own promise, which nothing else refers to, in the step of *)
(* their last operation.                                                   *)
(***************************************************************************)
EXTENDS Integers, Sequences, FiniteSets, TLC

VARIABLES heap, tasks, chans, slices

vars == <<heap, tasks, chans, slices>>

\* ------------------------------------------------------------------ bounds
\* distinct user values 1..NumVals a program resolves with
NumVals == 2
\* the longest chain of Then / Catch calls a program makes on one source
MaxDepth == 2
\* the largest number of constituents given to All or Race
MaxN == 2

\* ------------------------------------------------------- values and errors
PENDING == 0
FULFILLED == 1
REJECTED == 2

\* the zero value of T (nil for any, a nil slice for []T)
Zero == [tag |-> "zero"]
IntV(n) == [tag |-> "int", n |-> n]
PromV(id) == [tag |-> "promise", n |-> id]
ErrV(e) == [tag |-> "error", e |-> e]
\* a []T value, held by reference to its backing array in slices
SliceV(s) == [tag |-> "slice", n |-> s]
TrueV == [tag |-> "bool", n |-> 1]
\* what the Catch continuation of the tests returns for the error it is given
StrV(e) == [tag |-> "string", e |-> e]

\* error values: an error is identified by how it was made and its message
NilErr == [kind |-> "nil", msg |-> ""]
ErrorsNew(m) == [kind |-> "errors.New", msg |-> m]
Errorf(m) == [kind |-> "fmt.Errorf", msg |-> m]
NilDeref == [kind |-> "runtime.Error", msg |-> "invalid memory address or nil pointer dereference"]
promiseError == ErrorsNew("Promise Error")
err1 == ErrorsNew("Err 1")

\* the values handed to panic, as recover() returns them (interface{})
NilPl == [t |-> "nil", s |-> "", e |-> NilErr]
StrPl(s) == [t |-> "string", s |-> s, e |-> NilErr]
ErrPl(e) == [t |-> "error", s |-> "", e |-> e]

\* r.(error): whether the recovered value is an error
IsError(r) == r.t = "error"

\* fmt's %+v of a recovered value
Sprintf(r) ==
    CASE r.t = "nil" -> "<nil>"
      [] r.t = "string" -> r.s
      [] OTHER -> r.e.msg

\* a recovery that wraps every payload, errors too
RecoveredWrapped(r) == Errorf(Sprintf(r))

\* the error the deferred function of New's goroutine rejects with
Recovered(r) == IF IsError(r) THEN r.e ELSE Errorf(Sprintf(r))

\* --------------------------------------------------------------- promises
\* a promise New builds without p.wg.Add(1)
NewPromiseNoAdd == [status |-> PENDING, value |-> Zero, reason |-> NilErr, wg |-> 0]
\* &Promise[T]{status: PENDING, ...}; p.wg.Add(1)
NewPromise == [status |-> PENDING, value |-> Zero, reason |-> NilErr, wg |-> 1]
Resolve(value) == [status |-> FULFILLED, value |-> value, reason |-> NilErr, wg |-> 0]
Reject(err) == [status |-> REJECTED, value |-> Zero, reason |-> err, wg |-> 0]

\* resolve without its test of p.status
resolveUntested(p, val) ==
    [p EXCEPT !.status = FULFILLED, !.value = val, !.wg = @ - 1]

\* p.resolve(val) on the promise record p
resolve(p, val) ==
    IF p.status # PENDING
    THEN p
    ELSE [p EXCEPT !.status = FULFILLED, !.value = val, !.wg = @ - 1]

\* reject without its test of p.status
rejectUntested(p, err) ==
    [p EXCEPT !.status = REJECTED, !.reason = err, !.wg = @ - 1]

\* p.reject(err) on the promise record p
reject(p, err) ==
    IF p.status # PENDING
    THEN p
    ELSE [p EXCEPT !.status = REJECTED, !.reason = err, !.wg = @ - 1]

\* Await without the wait
AwaitUnblocked(p) == p \in DOMAIN heap

\* p.wg.Wait() returns once the counter is 0
Await(p) == heap[p].wg = 0

\* ------------------------------------------------------------- goroutines
NoCall == [fn |-> "", p |-> 0, val |-> Zero, err |-> NilErr]
NoCb == [kind |-> "none"]
NilFunc == [nil |-> TRUE, body |-> <<>>]
Func(body) == [nil |-> FALSE, body |-> body]

Task0 ==
    [kind |-> "", pc |-> "done", p |-> 0, src |-> 0, cb |-> NoCb,
     body |-> <<>>, ip |-> 1, val |-> Zero, err |-> NilErr, res |-> Zero,
     call |-> NoCall, ret |-> "",
     calls |-> 0, arg |-> Zero, rp |-> 0,
     panicked |-> FALSE, r |-> NilPl, guarded |-> FALSE, sawPending |-> FALSE,
     vars |-> <<>>, obs |-> <<>>,
     ps |-> <<>>, okc |-> 0, errc |-> 0, values |-> 0, idx |-> 1, msg |-> Zero]

\* goroutine me is about to call p.resolve(val) / p.reject(err), and goes on
\* at ret when the call has returned
CallResolve(me, p, val, ret) ==
    [me EXCEPT !.call = [fn |-> "resolve", p |-> p, val |-> val, err |-> NilErr],
               !.pc = "call", !.ret = ret]
CallReject(me, p, err, ret) ==
    [me EXCEPT !.call = [fn |-> "reject", p |-> p, val |-> Zero, err |-> err],
               !.pc = "call", !.ret = ret]

\* the executor has ended, by a return (r is nil) or by panic(r): the deferred
\* function is about to run r := recover() and p.reject(...)
Guard(me, r) == [CallReject(me, me.p, Recovered(r), "done") EXCEPT !.r = r]
Panic(me, r) == Guard([me EXCEPT !.panicked = TRUE], r)

\* a deferred function that rejects only when recover() returned a value
DeferredIfRecovered(h, me, r) ==
    IF r = NilPl THEN h ELSE [h EXCEPT ![me.p] = reject(@, Recovered(r))]

\* the deferred function of New's goroutine, run on heap h after the
\* executor of goroutine me ended with recover() = r
Deferred(h, me, r) == [h EXCEPT ![me.p] = reject(@, Recovered(r))]
Ended(h, me, r) ==
    [me EXCEPT !.pc = "done", !.r = r, !.guarded = TRUE,
               !.sawPending = (h[me.p].status = PENDING)]

\* heap h after the call c of p.resolve(val) or p.reject(err)
CallOn(h, c) ==
    [h EXCEPT ![c.p] = IF c.fn = "resolve" THEN resolve(@, c.val) ELSE reject(@, c.err)]

\* heap h after the pending call of goroutine me and the code that follows it
\* in the same step: the return of the executor and its deferred function,
\* before that (for a closure that settled another promise) the resolve of
\* its own promise with the closure's result
HeapAfter(h, me) ==
    CASE me.ret = "guard" -> Deferred(CallOn(h, me.call), me, NilPl)
      [] me.ret = "resolveRes" ->
           Deferred([CallOn(h, me.call) EXCEPT ![me.p] = resolve(@, me.res)], me, NilPl)
      [] OTHER -> CallOn(h, me.call)
\* goroutine me after that step; a call that goes on to "done" is the deferred
\* function's own
TaskAfter(h, me) ==
    CASE me.ret = "guard" -> Ended(CallOn(h, me.call), me, NilPl)
      [] me.ret = "resolveRes" ->
           Ended([CallOn(h, me.call) EXCEPT ![me.p] = resolve(@, me.res)], me, NilPl)
      [] me.ret = "done" /\ me.kind # "go" -> Ended(h, me, me.r)
      [] OTHER -> [me EXCEPT !.pc = me.ret]

\* goroutine t goes on as record nx, making the call nx is at, if any
Continue(t, nx) ==
    IF nx.pc = "call"
    THEN /\ heap' = HeapAfter(heap, nx)
         /\ tasks' = [tasks EXCEPT ![t] = TaskAfter(heap, nx)]
    ELSE /\ heap' = heap
         /\ tasks' = [tasks EXCEPT ![t] = nx]

\* the goroutine New starts for the promise at address p
Goroutine(kind, p) == [Task0 EXCEPT !.kind = kind, !.p = p]
ExecTask(p, exec) == [Goroutine("New", p) EXCEPT !.pc = "run", !.body = exec.body]
ThenTask(p, src, cb) == [Goroutine("Then", p) EXCEPT !.pc = "await", !.src = src, !.cb = cb]
CatchTask(p, src, cb) == [Goroutine("Catch", p) EXCEPT !.pc = "await", !.src = src, !.cb = cb]

\* a panic in goroutine t, whose record becomes me
Raise(t, me) ==
    /\ tasks' = [tasks EXCEPT ![t] = me]
    /\ heap' = heap

\* the body of New: a PENDING promise with wg = 1 and a goroutine for it
Go(t, me, new) ==
    /\ heap' = Append(heap, NewPromise)
    /\ tasks' = Append([tasks EXCEPT ![t] = me], new)

Fresh == Len(heap) + 1

\* ------------------------------------------------------ settlement calls
\* the pending call p.resolve(val) or p.reject(err) of goroutine t: of a
\* goroutine the executor started, of All's and Race's executor after a
\* receive, of the deferred function after the flattening branch
Settle(t) ==
    /\ tasks[t].pc = "call"
    /\ Continue(t, tasks[t])
    /\ UNCHANGED <<chans, slices>>

\* ------------------------------------------------ the executor given to New
\* the statements a user executor is made of
XResolve(v) == [op |-> "resolve", v |-> v, e |-> NilErr, r |-> NilPl]
XReject(e) == [op |-> "reject", v |-> Zero, e |-> e, r |-> NilPl]
XPanic(r) == [op |-> "panic", v |-> Zero, e |-> NilErr, r |-> r]
\* go resolve(v) / go reject(e): the executor hands its callback to another goroutine
XGoResolve(v) == [op |-> "goResolve", v |-> v, e |-> NilErr, r |-> NilPl]
XGoReject(e) == [op |-> "goReject", v |-> Zero, e |-> e, r |-> NilPl]

\* the promise after statement op of the executor
Stmt(p, op) ==
    CASE op.op = "resolve" -> resolve(p, op.v)
      [] op.op = "reject" -> reject(p, op.e)
      [] OTHER -> p

\* exec(p.resolve, p.reject) in New's goroutine, one statement per step; the
\* last statement, a panic and the return of an empty executor are followed by
\* the deferred function
Executor(t) ==
    LET me == tasks[t]
        empty == me.ip > Len(me.body)
        op == me.body[me.ip]
        h == IF empty THEN heap ELSE [heap EXCEPT ![me.p] = Stmt(@, op)]
        r == IF ~empty /\ op.op = "panic" THEN op.r ELSE NilPl
        ends == empty \/ op.op = "panic" \/ me.ip = Len(me.body)
        nx == IF ends
              THEN Ended(h, [me EXCEPT !.panicked = (~empty /\ op.op = "panic")], r)
              ELSE [me EXCEPT !.ip = @ + 1]
    IN  /\ me.kind = "New"
        /\ me.pc = "run"
        /\ heap' = IF ends THEN Deferred(h, me, r) ELSE h
        /\ tasks' =
             IF empty \/ op.op \notin {"goResolve", "goReject"}
             THEN [tasks EXCEPT ![t] = nx]
             ELSE Append([tasks EXCEPT ![t] = nx],
                         IF op.op = "goResolve"
                         THEN CallResolve(Goroutine("go", me.p), me.p, op.v, "done")
                         ELSE CallReject(Goroutine("go", me.p), me.p, op.e, "done"))
        /\ UNCHANGED <<chans, slices>>

\* ---------------------------------------------------------- continuations
\* the continuations a caller passes to Then and Catch
CbFn == [kind |-> "fn"]
CbPanic(r) == [kind |-> "panic", r |-> r]
\* a continuation that returns a promise: New(exec), Resolve(v) or Reject(e)
CbNew(exec) == [kind |-> "promise", mk |-> "New", exec |-> exec, v |-> Zero, e |-> NilErr]
CbResolve(v) == [kind |-> "promise", mk |-> "Resolve", exec |-> NilFunc, v |-> v, e |-> NilErr]
CbReject(e) == [kind |-> "promise", mk |-> "Reject", exec |-> NilFunc, v |-> Zero, e |-> e]

\* func(v int) int { return v + 1 } for Then; func(err) any { return "Tadaa" } for Catch
Fn(kind, arg) ==
    IF kind = "Then"
    THEN IF arg.tag = "int" THEN IntV(arg.n + 1) ELSE IntV(1)
    ELSE StrV(arg.e)

\* the argument the continuation is called with
CbArg(me) == IF me.kind = "Then" THEN me.val ELSE ErrV(me.err)
Entered(me) == [me EXCEPT !.calls = @ + 1, !.arg = CbArg(me)]

\* a Then / Catch that resolves with the continuation's argument, not its result
UserCbArgument(me) ==
    CASE me.cb.kind = "fn" ->
           CallResolve([Entered(me) EXCEPT !.res = CbArg(me)], me.p, CbArg(me), "guard")
      [] me.cb.kind = "panic" -> Panic(Entered(me), me.cb.r)
      [] OTHER -> [Entered(me) EXCEPT !.pc = "cb"]

\* resOrProm := cb(...) for a caller's continuation: one that returns a plain
\* value (which is no *Promise[R], so resolve(resOrProm) is next), one that
\* panics, one whose body makes a promise
UserCb(me) ==
    CASE me.cb.kind = "fn" ->
           CallResolve([Entered(me) EXCEPT !.res = Fn(me.kind, CbArg(me))],
                       me.p, Fn(me.kind, CbArg(me)), "guard")
      [] me.cb.kind = "panic" -> Panic(Entered(me), me.cb.r)
      [] OTHER -> [Entered(me) EXCEPT !.pc = "cb"]

\* the closures of the flattening branch: func(val R) R { resolve(val); return val }
\* and func(err error) any { reject(err); return nil }, which settle the outer
\* promise and whose result then resolves the inner Then's / Catch's promise
FlatCb(me) ==
    IF me.cb.kind = "flatThen"
    THEN CallResolve([Entered(me) EXCEPT !.res = me.val], me.cb.outer, me.val, "resolveRes")
    ELSE CallReject([Entered(me) EXCEPT !.res = Zero], me.cb.outer, me.err, "resolveRes")

\* the closures of All: values[idx] = val; doneChan <- true; return val, and
\* errChan <- err; return err
AllCb(me) ==
    IF me.cb.kind = "allThen"
    THEN [Entered(me) EXCEPT !.pc = "write", !.msg = TrueV, !.res = me.val]
    ELSE [Entered(me) EXCEPT !.pc = "send", !.msg = ErrV(me.err), !.res = ErrV(me.err)]

\* the closures of Race: valueChan <- val; return val, and errChan <- err; return err
RaceCb(me) ==
    IF me.cb.kind = "raceThen"
    THEN [Entered(me) EXCEPT !.pc = "send", !.msg = me.val, !.res = me.val]
    ELSE [Entered(me) EXCEPT !.pc = "send", !.msg = ErrV(me.err), !.res = ErrV(me.err)]

\* cb(val) / cb(err), up to the continuation's first operation on shared state
Invoke(me) ==
    CASE me.cb.kind \in {"fn", "panic", "promise"} -> UserCb(me)
      [] me.cb.kind \in {"flatThen", "flatCatch"} -> FlatCb(me)
      [] me.cb.kind \in {"allThen", "allCatch"} -> AllCb(me)
      [] OTHER -> RaceCb(me)

\* ------------------------------------------------------------------- Then
\* a Then without its test of err
ThenAwaitUntested(t) ==
    /\ tasks[t].kind = "Then"
    /\ tasks[t].pc = "await"
    /\ Await(tasks[t].src)
    /\ Continue(t, Invoke([tasks[t] EXCEPT !.val = heap[tasks[t].src].value,
                                           !.err = heap[tasks[t].src].reason]))
    /\ UNCHANGED <<chans, slices>>

\* val, err := src.Await(); if err != nil { reject(err); return }; cb(val)
ThenAwait(t) ==
    /\ tasks[t].kind = "Then"
    /\ tasks[t].pc = "await"
    /\ Await(tasks[t].src)
    /\ LET me == [tasks[t] EXCEPT !.val = heap[tasks[t].src].value,
                                  !.err = heap[tasks[t].src].reason]
       IN  Continue(t, IF me.err # NilErr
                       THEN CallReject(me, me.p, me.err, "guard")
                       ELSE Invoke(me))
    /\ UNCHANGED <<chans, slices>>

\* ------------------------------------------------------------------ Catch
\* a Catch that tests err == nil
CatchAwaitInverted(t) ==
    LET me == tasks[t]
    IN  /\ me.kind = "Catch"
        /\ me.pc = "await"
        /\ IF me.src = 0
           THEN Continue(t, Panic(me, ErrPl(NilDeref)))
           ELSE /\ Await(me.src)
                /\ Continue(t, IF heap[me.src].reason = NilErr
                                THEN Invoke([me EXCEPT !.err = heap[me.src].reason])
                                ELSE Guard(me, NilPl))
        /\ UNCHANGED <<chans, slices>>

\* _, err := src.Await() (src is dereferenced unchecked); if err != nil
\* { cb(err) ... }; else the executor returns
CatchAwait(t) ==
    LET me == tasks[t]
    IN  /\ me.kind = "Catch"
        /\ me.pc = "await"
        /\ IF me.src = 0
           THEN Continue(t, Panic(me, ErrPl(NilDeref)))
           ELSE /\ Await(me.src)
                /\ Continue(t, IF heap[me.src].reason # NilErr
                                THEN Invoke([me EXCEPT !.err = heap[me.src].reason])
                                ELSE Guard(me, NilPl))
        /\ UNCHANGED <<chans, slices>>

\* ------------------------------------------------------------- flattening
\* the body of a continuation that makes a promise and returns it: the type
\* test of resOrProm succeeds and rp is that promise
CallbackPromise(t) ==
    LET me == tasks[t]
        nx == [me EXCEPT !.rp = Fresh, !.res = PromV(Fresh), !.pc = "flatThen"]
    IN  /\ me.pc = "cb"
        /\ CASE me.cb.mk = "New" -> Go(t, nx, ExecTask(Fresh, me.cb.exec))
             [] me.cb.mk = "Resolve" ->
                  /\ heap' = Append(heap, Resolve(me.cb.v))
                  /\ tasks' = [tasks EXCEPT ![t] = nx]
             [] OTHER ->
                  /\ heap' = Append(heap, Reject(me.cb.e))
                  /\ tasks' = [tasks EXCEPT ![t] = nx]
        /\ UNCHANGED <<chans, slices>>

\* Then(rp, func(val R) R { resolve(val); return val })
FlatThen(t) ==
    LET me == tasks[t]
    IN  /\ me.pc = "flatThen"
        /\ IF me.rp = 0
           THEN Raise(t, Panic(me, StrPl("must provide valid promise")))
           ELSE Go(t, [me EXCEPT !.pc = "flatCatch"],
                   ThenTask(Fresh, me.rp, [kind |-> "flatThen", outer |-> me.p]))
        /\ UNCHANGED <<chans, slices>>

\* Catch(rp, func(err error) any { reject(err); return nil }); return
FlatCatch(t) ==
    LET me == tasks[t]
    IN  /\ me.pc = "flatCatch"
        /\ Go(t, Guard(me, NilPl),
              CatchTask(Fresh, me.rp, [kind |-> "flatCatch", outer |-> me.p]))
        /\ UNCHANGED <<chans, slices>>

\* -------------------------------------------------------------- channels
MakeChan(cap) == [cap |-> cap, buf |-> <<>>]
\* a send on a buffered channel proceeds while the buffer has room
CanSend(c) == Len(chans[c].buf) < chans[c].cap
CanRecv(c) == Len(chans[c].buf) > 0

\* values[idx] = val in the closure All passes to Then
Write(t) ==
    LET me == tasks[t]
    IN  /\ me.pc = "write"
        /\ slices' = [slices EXCEPT ![me.cb.values][me.cb.idx] = me.val]
        /\ tasks' = [tasks EXCEPT ![t] = [me EXCEPT !.pc = "send"]]
        /\ UNCHANGED <<heap, chans>>

\* doneChan <- true, valueChan <- val, errChan <- err; then return val / err,
\* which is no promise, so resolve(resOrProm) on the closure's own promise
Send(t) ==
    LET me == tasks[t]
    IN  /\ me.pc = "send"
        /\ CanSend(me.cb.ch)
        /\ chans' = [chans EXCEPT ![me.cb.ch].buf = Append(@, me.msg)]
        /\ Continue(t, CallResolve(me, me.p, me.res, "guard"))
        /\ UNCHANGED slices

\* -------------------------------------------------------------------- All
AllTask(p, ps) == [Goroutine("All", p) EXCEPT !.pc = "make", !.ps = ps]

\* doneChan, errChan and values of All's executor
AllMake(t) ==
    LET me == tasks[t]
        n == Len(me.ps)
    IN  /\ me.kind = "All"
        /\ me.pc = "make"
        /\ chans' = chans \o <<MakeChan(n), MakeChan(1)>>
        /\ slices' = Append(slices, [i \in 1..n |-> Zero])
        /\ tasks' = [tasks EXCEPT ![t] =
               [me EXCEPT !.pc = "then", !.idx = 1, !.okc = Len(chans) + 1,
                          !.errc = Len(chans) + 2, !.values = Len(slices) + 1]]
        /\ UNCHANGED heap

\* an All whose closures all capture the first index
AllThenSharedIdx(t) ==
    LET me == tasks[t]
    IN  /\ me.kind = "All"
        /\ me.pc = "then"
        /\ Go(t, [me EXCEPT !.pc = "catch"],
              ThenTask(Fresh, me.ps[me.idx],
                       [kind |-> "allThen", idx |-> 1, values |-> me.values,
                        ch |-> me.okc]))
        /\ UNCHANGED <<chans, slices>>

\* _ = Then(p, func(val T) T { values[idx] = val; doneChan <- true; return val })
AllThen(t) ==
    LET me == tasks[t]
    IN  /\ me.kind = "All"
        /\ me.pc = "then"
        /\ IF me.ps[me.idx] = 0
           THEN Raise(t, Panic(me, StrPl("must provide valid promise")))
           ELSE Go(t, [me EXCEPT !.pc = "catch"],
                   ThenTask(Fresh, me.ps[me.idx],
                            [kind |-> "allThen", idx |-> me.idx, values |-> me.values,
                             ch |-> me.okc]))
        /\ UNCHANGED <<chans, slices>>

\* _ = Catch(p, func(err error) error { errChan <- err; return err })
AllCatch(t) ==
    LET me == tasks[t]
    IN  /\ me.kind = "All"
        /\ me.pc = "catch"
        /\ Go(t, IF me.idx = Len(me.ps)
                 THEN [me EXCEPT !.pc = "select", !.idx = 0]
                 ELSE [me EXCEPT !.pc = "then", !.idx = @ + 1],
              CatchTask(Fresh, me.ps[me.idx], [kind |-> "allCatch", ch |-> me.errc]))
        /\ UNCHANGED <<chans, slices>>

\* a collection loop that runs once more than there are promises
AllDoneOneMore(t) ==
    LET me == tasks[t]
    IN  /\ me.kind = "All"
        /\ me.pc = "select"
        /\ CanRecv(me.okc)
        /\ chans' = [chans EXCEPT ![me.okc].buf = Tail(@)]
        /\ tasks' = [tasks EXCEPT ![t] =
               IF me.idx = Len(me.ps)
               THEN CallResolve([me EXCEPT !.idx = @ + 1], me.p, SliceV(me.values), "guard")
               ELSE [me EXCEPT !.idx = @ + 1]]
        /\ UNCHANGED <<heap, slices>>

\* case <-doneChan: of the collection loop; after len(promises) of them, resolve(values)
AllDone(t) ==
    LET me == tasks[t]
    IN  /\ me.kind = "All"
        /\ me.pc = "select"
        /\ CanRecv(me.okc)
        /\ chans' = [chans EXCEPT ![me.okc].buf = Tail(@)]
        /\ tasks' = [tasks EXCEPT ![t] =
               IF me.idx + 1 = Len(me.ps)
               THEN CallResolve([me EXCEPT !.idx = @ + 1], me.p, SliceV(me.values), "guard")
               ELSE [me EXCEPT !.idx = @ + 1]]
        /\ UNCHANGED <<heap, slices>>

\* an All that rejects with an error of its own, made from the message of
\* the one it received
AllErrWrapped(t) ==
    LET me == tasks[t]
    IN  /\ me.kind = "All"
        /\ me.pc = "select"
        /\ CanRecv(me.errc)
        /\ chans' = [chans EXCEPT ![me.errc].buf = Tail(@)]
        /\ tasks' = [tasks EXCEPT ![t] =
               CallReject([me EXCEPT !.err = Head(chans[me.errc].buf).e], me.p,
                          Errorf(Head(chans[me.errc].buf).e.msg), "guard")]
        /\ UNCHANGED <<heap, slices>>

\* case err := <-errChan: reject(err); return
AllErr(t) ==
    LET me == tasks[t]
    IN  /\ me.kind = "All"
        /\ me.pc = "select"
        /\ CanRecv(me.errc)
        /\ chans' = [chans EXCEPT ![me.errc].buf = Tail(@)]
        /\ tasks' = [tasks EXCEPT ![t] =
               CallReject([me EXCEPT !.err = Head(chans[me.errc].buf).e], me.p,
                          Head(chans[me.errc].buf).e, "guard")]
        /\ UNCHANGED <<heap, slices>>

\* ------------------------------------------------------------------- Race
RaceTask(p, ps) == [Goroutine("Race", p) EXCEPT !.pc = "make", !.ps = ps]

\* valueChan and errChan of Race's executor
RaceMake(t) ==
    LET me == tasks[t]
    IN  /\ me.kind = "Race"
        /\ me.pc = "make"
        /\ chans' = chans \o <<MakeChan(1), MakeChan(1)>>
        /\ tasks' = [tasks EXCEPT ![t] =
               [me EXCEPT !.pc = "then", !.idx = 1, !.okc = Len(chans) + 1,
                          !.errc = Len(chans) + 2]]
        /\ UNCHANGED <<heap, slices>>

\* _ = Then(p, func(val T) T { valueChan <- val; return val })
RaceThen(t) ==
    LET me == tasks[t]
    IN  /\ me.kind = "Race"
        /\ me.pc = "then"
        /\ IF me.ps[me.idx] = 0
           THEN Raise(t, Panic(me, StrPl("must provide valid promise")))
           ELSE Go(t, [me EXCEPT !.pc = "catch"],
                   ThenTask(Fresh, me.ps[me.idx], [kind |-> "raceThen", ch |-> me.okc]))
        /\ UNCHANGED <<chans, slices>>

\* _ = Catch(p, func(err error) error { errChan <- err; return err })
RaceCatch(t) ==
    LET me == tasks[t]
    IN  /\ me.kind = "Race"
        /\ me.pc = "catch"
        /\ Go(t, IF me.idx = Len(me.ps)
                 THEN [me EXCEPT !.pc = "select"]
                 ELSE [me EXCEPT !.pc = "then", !.idx = @ + 1],
              CatchTask(Fresh, me.ps[me.idx], [kind |-> "raceCatch", ch |-> me.errc]))
        /\ UNCHANGED <<chans, slices>>

\* case val := <-valueChan: resolve(val)
RaceVal(t) ==
    LET me == tasks[t]
    IN  /\ me.kind = "Race"
        /\ me.pc = "select"
        /\ CanRecv(me.okc)
        /\ chans' = [chans EXCEPT ![me.okc].buf = Tail(@)]
        /\ tasks' = [tasks EXCEPT ![t] =
               CallResolve([me EXCEPT !.val = Head(chans[me.okc].buf)], me.p,
                           Head(chans[me.okc].buf), "guard")]
        /\ UNCHANGED <<heap, slices>>

\* case err := <-errChan: reject(err)
RaceErr(t) ==
    LET me == tasks[t]
    IN  /\ me.kind = "Race"
        /\ me.pc = "select"
        /\ CanRecv(me.errc)
        /\ chans' = [chans EXCEPT ![me.errc].buf = Tail(@)]
        /\ tasks' = [tasks EXCEPT ![t] =
               CallReject([me EXCEPT !.err = Head(chans[me.errc].buf).e], me.p,
                          Head(chans[me.errc].buf).e, "guard")]
        /\ UNCHANGED <<heap, slices>>

\* ------------------------------------------------------ the calling program
\* the calls a program makes, in order; src and ps name earlier results of the
\* program by position (0 is a nil *Promise)
OpNew(exec) == [op |-> "New", exec |-> exec]
OpResolve(v) == [op |-> "Resolve", v |-> v]
OpReject(e) == [op |-> "Reject", e |-> e]
OpThen(src, cb) == [op |-> "Then", src |-> src, cb |-> cb]
OpCatch(src, cb) == [op |-> "Catch", src |-> src, cb |-> cb]
OpAll(ps) == [op |-> "All", ps |-> ps]
OpRace(ps) == [op |-> "Race", ps |-> ps]
OpAwait(src) == [op |-> "Await", src |-> src]
OpGoAwait(src) == [op |-> "GoAwait", src |-> src]

Main(prog) == [Task0 EXCEPT !.kind = "main", !.pc = "run", !.body = prog]
At(t, op) ==
    /\ tasks[t].kind = "main"
    /\ tasks[t].pc = "run"
    /\ tasks[t].ip <= Len(tasks[t].body)
    /\ tasks[t].body[tasks[t].ip].op = op
Arg(t) == tasks[t].body[tasks[t].ip]
Ref(t, i) == IF i = 0 THEN 0 ELSE tasks[t].vars[i]
Refs(t, ps) == [i \in 1..Len(ps) |-> Ref(t, ps[i])]
\* the program goes on with the call's result p
Got(t, p) == [tasks[t] EXCEPT !.ip = @ + 1, !.vars = Append(@, p)]
\* a panic in the calling goroutine, which nothing recovers
Fatal(t, r) == [tasks[t] EXCEPT !.pc = "fatal", !.panicked = TRUE, !.r = r]

\* New(exec): panics on a nil executor, else returns the PENDING promise
New(t) ==
    /\ At(t, "New")
    /\ IF Arg(t).exec.nil
       THEN Raise(t, Fatal(t, StrPl("executor cannot be nil")))
       ELSE Go(t, Got(t, Fresh), ExecTask(Fresh, Arg(t).exec))
    /\ UNCHANGED <<chans, slices>>

\* Resolve(value) and Reject(err): a settled promise, no goroutine
Presettled(t) ==
    /\ \/ At(t, "Resolve") /\ heap' = Append(heap, Resolve(Arg(t).v))
       \/ At(t, "Reject") /\ heap' = Append(heap, Reject(Arg(t).e))
    /\ tasks' = [tasks EXCEPT ![t] = Got(t, Fresh)]
    /\ UNCHANGED <<chans, slices>>

\* Then(src, cb): panics on a nil source, else New(...)
Then(t) ==
    /\ At(t, "Then")
    /\ IF Ref(t, Arg(t).src) = 0
       THEN Raise(t, Fatal(t, StrPl("must provide valid promise")))
       ELSE Go(t, Got(t, Fresh), ThenTask(Fresh, Ref(t, Arg(t).src), Arg(t).cb))
    /\ UNCHANGED <<chans, slices>>

\* Catch(src, cb): New(...), with no test of src
Catch(t) ==
    /\ At(t, "Catch")
    /\ Go(t, Got(t, Fresh), CatchTask(Fresh, Ref(t, Arg(t).src), Arg(t).cb))
    /\ UNCHANGED <<chans, slices>>

\* an All that also returns nil for a single promise
AllNilForOne(t) ==
    /\ At(t, "All")
    /\ IF Len(Arg(t).ps) <= 1
       THEN Raise(t, Got(t, 0))
       ELSE Go(t, Got(t, Fresh), AllTask(Fresh, Refs(t, Arg(t).ps)))
    /\ UNCHANGED <<chans, slices>>

\* All(promises...): nil for no promises, else New(...)
All(t) ==
    /\ At(t, "All")
    /\ IF Len(Arg(t).ps) = 0
       THEN Raise(t, Got(t, 0))
       ELSE Go(t, Got(t, Fresh), AllTask(Fresh, Refs(t, Arg(t).ps)))
    /\ UNCHANGED <<chans, slices>>

\* Race(promises...): nil for no promises, else New(...)
Race(t) ==
    /\ At(t, "Race")
    /\ IF Len(Arg(t).ps) = 0
       THEN Raise(t, Got(t, 0))
       ELSE Go(t, Got(t, Fresh), RaceTask(Fresh, Refs(t, Arg(t).ps)))
    /\ UNCHANGED <<chans, slices>>

\* what p.Await() returns: p.value, p.reason
Returned(p) == [p |-> p, value |-> heap[p].value, reason |-> heap[p].reason]

\* res, err := p.Await() in the calling program; p.wg of a nil p is a nil
\* pointer dereference
MainAwait(t) ==
    /\ At(t, "Await")
    /\ IF Ref(t, Arg(t).src) = 0
       THEN tasks' = [tasks EXCEPT ![t] = Fatal(t, ErrPl(NilDeref))]
       ELSE /\ Await(Ref(t, Arg(t).src))
            /\ tasks' = [tasks EXCEPT ![t] =
                   [tasks[t] EXCEPT !.ip = @ + 1,
                                    !.obs = Append(@, Returned(Ref(t, Arg(t).src)))]]
    /\ UNCHANGED <<heap, chans, slices>>

\* go func() { p.Await() }(): another goroutine of the program waits on p
GoAwait(t) ==
    /\ At(t, "GoAwait")
    /\ tasks' = Append([tasks EXCEPT ![t] = [tasks[t] EXCEPT !.ip = @ + 1]],
                       [Task0 EXCEPT !.kind = "waiter", !.pc = "await",
                                     !.src = Ref(t, Arg(t).src)])
    /\ UNCHANGED <<heap, chans, slices>>

WaiterAwait(t) ==
    /\ tasks[t].kind = "waiter"
    /\ tasks[t].pc = "await"
    /\ Await(tasks[t].src)
    /\ tasks' = [tasks EXCEPT ![t] =
           [tasks[t] EXCEPT !.pc = "done", !.obs = <<Returned(tasks[t].src)>>]]
    /\ UNCHANGED <<heap, chans, slices>>

\* ----------------------------------------------------------- the programs
Vals == {IntV(n) : n \in 1..NumVals}
ErrName == <<"Err 1", "Err 2", "Err 3", "Err 4", "Err 5">>
Err(i) == ErrorsNew(ErrName[i])
Errs == {promiseError, err1}
Payloads == {NilPl, StrPl("random error"), ErrPl(promiseError)}

\* executors that settle once
Settling ==
    {Func(<<XResolve(v)>>) : v \in Vals} \cup {Func(<<XReject(e)>>) : e \in Errs}
\* executors that return without settling, reject with nil, panic, settle
\* twice, or settle from several goroutines at once
Unruly ==
    {Func(<<>>), Func(<<XReject(NilErr)>>)}
    \cup {Func(<<XPanic(r)>>) : r \in Payloads}
    \cup {Func(<<XResolve(IntV(1)), XPanic(r)>>) : r \in Payloads}
    \cup {Func(<<XResolve(IntV(1)), XReject(promiseError)>>),
          Func(<<XReject(promiseError), XResolve(IntV(1))>>),
          Func(<<XGoResolve(IntV(1)), XReject(promiseError)>>),
          Func(<<XGoReject(promiseError), XGoResolve(IntV(1)), XResolve(IntV(2))>>),
          Func(<<XGoResolve(IntV(1)), XPanic(ErrPl(err1))>>)}

Sources ==
    {OpNew(x) : x \in Settling} \cup {OpResolve(v) : v \in Vals}
    \cup {OpReject(e) : e \in Errs}

Cbs ==
    {CbFn} \cup {CbPanic(r) : r \in Payloads}
    \cup {CbNew(Func(<<XResolve(IntV(2))>>)), CbNew(Func(<<XReject(err1)>>)),
          CbResolve(IntV(2)), CbReject(err1)}

\* one promise, awaited by the program and by another goroutine
Settlements ==
    {<<OpNew(x), OpGoAwait(1), OpAwait(1), OpAwait(1)>> : x \in Settling \cup Unruly}
    \cup {<<s, OpGoAwait(1), OpAwait(1), OpAwait(1)>> : s \in Sources}

\* a source with one Then or Catch attached while another goroutine awaits it
Links ==
    {<<s, OpGoAwait(1), OpThen(1, cb), OpAwait(1), OpAwait(2), OpAwait(1)>> :
        s \in Sources, cb \in Cbs}
    \cup {<<s, OpGoAwait(1), OpCatch(1, cb), OpAwait(1), OpAwait(2), OpAwait(1)>> :
        s \in Sources, cb \in Cbs}

\* a chain of d Then / Catch calls, each on the promise before it
RECURSIVE Chain(_)
Chain(d) ==
    IF d = 0 THEN {<<>>}
    ELSE {Append(c, k) : c \in Chain(d - 1), k \in {"Then", "Catch"}}
ChainOps(c) ==
    [i \in 1..Len(c) |-> IF c[i] = "Then" THEN OpThen(i, CbFn) ELSE OpCatch(i, CbFn)]
Chains ==
    {<<s>> \o ChainOps(c) \o <<OpAwait(Len(c) + 1)>> :
        s \in Sources, c \in UNION {Chain(d) : d \in 2..MaxDepth}}

\* n constituents, the i-th fulfilling with i or rejecting with Err(i), given
\* to All or to Race
Constituent(i) ==
    {OpNew(Func(<<XResolve(IntV(i))>>)), OpNew(Func(<<XReject(Err(i))>>))}
RECURSIVE Inputs(_)
Inputs(n) ==
    IF n = 0 THEN {<<>>}
    ELSE {Append(in, c) : in \in Inputs(n - 1), c \in Constituent(n)}
Iota(n) == [i \in 1..n |-> i]
Aggregates ==
    UNION {{in \o <<OpAll(Iota(Len(in))), OpAwait(Len(in) + 1)>>,
            in \o <<OpRace(Iota(Len(in))), OpAwait(Len(in) + 1)>>} :
           in \in UNION {Inputs(n) : n \in 1..MaxN}}
    \cup {<<OpAll(<<>>)>>, <<OpRace(<<>>)>>}
    \cup {<<OpAll(<<>>), OpAwait(1)>>, <<OpRace(<<>>), OpAwait(1)>>}

\* the inputs of TestAll_AllSuccess, TestAll_AllRejection, TestRace_AllSuccess
\* and TestRace_AllRejection: three constituents that all fulfil, or all
\* reject, each with a value or an error of its own
Fulfilling == <<OpNew(Func(<<XResolve(IntV(1))>>)), OpNew(Func(<<XResolve(IntV(2))>>)),
                OpNew(Func(<<XResolve(IntV(3))>>))>>
Rejecting == <<OpNew(Func(<<XReject(Err(1))>>)), OpNew(Func(<<XReject(Err(2))>>)),
               OpNew(Func(<<XReject(Err(3))>>))>>
Triples ==
    UNION {{in \o <<OpAll(Iota(Len(in))), OpAwait(Len(in) + 1)>>,
            in \o <<OpRace(Iota(Len(in))), OpAwait(Len(in) + 1)>>} :
           in \in {Fulfilling, Rejecting}}

\* n constituents built by Resolve and Reject one after the other, so that
\* each is settled before the next exists, given to All or to Race
Built(i) == {OpResolve(IntV(i)), OpReject(Err(i))}
RECURSIVE BuiltInputs(_)
BuiltInputs(n) ==
    IF n = 0 THEN {<<>>}
    ELSE {Append(in, c) : in \in BuiltInputs(n - 1), c \in Built(n)}
Staggered ==
    UNION {{in \o <<OpAll(Iota(Len(in))), OpAwait(Len(in) + 1)>>,
            in \o <<OpRace(Iota(Len(in))), OpAwait(Len(in) + 1)>>} :
           in \in UNION {BuiltInputs(n) : n \in 2..MaxN}}

\* calls with a nil executor or a nil source promise
Misuse ==
    {<<OpNew(NilFunc)>>, <<OpNew(NilFunc), OpAwait(1)>>}
    \cup {<<OpThen(0, CbFn), OpAwait(1)>>, <<OpCatch(0, CbFn), OpAwait(1)>>}
    \cup {<<s, OpThen(1, CbFn), OpCatch(0, CbFn), OpAwait(3)>> : s \in Sources}

\* a source rejected with a nil error, by reject(nil) or by Reject(nil), with
\* one Then or Catch attached
NilRejected ==
    {<<s, l, OpAwait(1), OpAwait(2)>> :
        s \in {OpNew(Func(<<XReject(NilErr)>>)), OpReject(NilErr)},
        l \in {OpThen(1, CbFn), OpCatch(1, CbFn)}}

\* All and Race of a constituent that fulfils and one that calls reject(nil)
NilConstituent ==
    {<<OpNew(Func(<<XResolve(IntV(1))>>)), OpNew(Func(<<XReject(NilErr)>>)), a, OpAwait(3)>> :
        a \in {OpAll(<<1, 2>>), OpRace(<<1, 2>>), OpRace(<<2, 1>>)}}

Programs ==
    Settlements \cup Links \cup Chains \cup Aggregates \cup Triples \cup Staggered
    \cup Misuse \cup NilRejected \cup NilConstituent

\* ------------------------------------------------------ the state machine
Init ==
    /\ heap = <<>>
    /\ chans = <<>>
    /\ slices = <<>>
    /\ \E prog \in Programs : tasks = <<Main(prog)>>

Next ==
    \/ \E t \in DOMAIN tasks : New(t)
    \/ \E t \in DOMAIN tasks : Presettled(t)
    \/ \E t \in DOMAIN tasks : Then(t)
    \/ \E t \in DOMAIN tasks : Catch(t)
    \/ \E t \in DOMAIN tasks : All(t)
    \/ \E t \in DOMAIN tasks : Race(t)
    \/ \E t \in DOMAIN tasks : MainAwait(t)
    \/ \E t \in DOMAIN tasks : GoAwait(t)
    \/ \E t \in DOMAIN tasks : WaiterAwait(t)
    \/ \E t \in DOMAIN tasks : Executor(t)
    \/ \E t \in DOMAIN tasks : Settle(t)
    \/ \E t \in DOMAIN tasks : ThenAwait(t)
    \/ \E t \in DOMAIN tasks : CatchAwait(t)
    \/ \E t \in DOMAIN tasks : CallbackPromise(t)
    \/ \E t \in DOMAIN tasks : FlatThen(t)
    \/ \E t \in DOMAIN tasks : FlatCatch(t)
    \/ \E t \in DOMAIN tasks : Write(t)
    \/ \E t \in DOMAIN tasks : Send(t)
    \/ \E t \in DOMAIN tasks : AllMake(t)
    \/ \E t \in DOMAIN tasks : AllThen(t)
    \/ \E t \in DOMAIN tasks : AllCatch(t)
    \/ \E t \in DOMAIN tasks : AllDone(t)
    \/ \E t \in DOMAIN tasks : AllErr(t)
    \/ \E t \in DOMAIN tasks : RaceMake(t)
    \/ \E t \in DOMAIN tasks : RaceThen(t)
    \/ \E t \in DOMAIN tasks : RaceCatch(t)
    \/ \E t \in DOMAIN tasks : RaceVal(t)
    \/ \E t \in DOMAIN tasks : RaceErr(t)

Spec == Init /\ [][Next]_vars

\* the scheduler runs a runnable goroutine whenever there is one: a program is
\* never left standing while one of its goroutines can take a step.  Every
\* program is finite, so each run ends in a state where every goroutine has
\* ended or is blocked for good.
FairSpec == Spec /\ WF_vars(Next)

\* ----------------------------------------------------------------- claims
Promises == DOMAIN heap
Tasks == DOMAIN tasks
Settled(p) == heap[p].status # PENDING
Finished(t) == tasks[t].pc = "done"
\* the goroutines of Then / Catch calls made with a caller's continuation
UserLink(t, kind) ==
    tasks[t].kind = kind /\ tasks[t].cb.kind \in {"fn", "panic", "promise"}

\* C1: a promise leaves PENDING at most once: from the step in which its status
\* is no longer PENDING on, no resolve or reject call (the recovery guard's
\* included) changes its status, value or reason.
C1_SettlesOnce ==
    [][\A p \in Promises :
          Settled(p) =>
              /\ heap'[p].status = heap[p].status
              /\ heap'[p].value = heap[p].value
              /\ heap'[p].reason = heap[p].reason]_vars

\* a resolve from another goroutine lost against the executor's reject, and
\* the recovery guard's reject then found the promise settled
C1_Witness ==
    \E t, u \in Tasks :
        /\ tasks[t].kind = "New" /\ Finished(t) /\ tasks[t].guarded
        /\ ~tasks[t].sawPending
        /\ tasks[u].kind = "go" /\ Finished(u) /\ tasks[u].p = tasks[t].p
        /\ tasks[u].call.fn = "resolve"
        /\ heap[tasks[t].p].status = REJECTED

\* C2: every Await that has returned, in the program or in another goroutine,
\* before or after Then / Catch were attached, returned the pair (value,
\* reason) the settled promise holds; so all of them returned the same pair.
C2_AwaitSame ==
    \A t \in Tasks : \A i \in DOMAIN tasks[t].obs :
        LET o == tasks[t].obs[i]
        IN  /\ Settled(o.p)
            /\ o.value = heap[o.p].value
            /\ o.reason = heap[o.p].reason

\* the program awaited one promise twice, another goroutine awaited it too,
\* and a Then or Catch attached to it has run to its end
C2_Witness ==
    \E w, c \in Tasks :
        /\ tasks[w].kind = "waiter" /\ Len(tasks[w].obs) = 1
        /\ tasks[c].kind \in {"Then", "Catch"} /\ Finished(c)
        /\ tasks[c].src = tasks[w].src
        /\ \E i, j \in DOMAIN tasks[1].obs :
              /\ i < j
              /\ tasks[1].obs[i].p = tasks[w].src
              /\ tasks[1].obs[j].p = tasks[w].src

\* C3: a PENDING promise has value and reason at their zero values, a
\* FULFILLED one has a nil reason, a REJECTED one has the zero value; and so
\* has every pair Await returned.
C3_OneSide ==
    /\ \A p \in Promises :
          /\ heap[p].status = PENDING => heap[p].value = Zero /\ heap[p].reason = NilErr
          /\ heap[p].status = FULFILLED => heap[p].reason = NilErr
          /\ heap[p].status = REJECTED => heap[p].value = Zero
    /\ \A t \in Tasks : \A i \in DOMAIN tasks[t].obs :
          tasks[t].obs[i].value = Zero \/ tasks[t].obs[i].reason = NilErr

\* an executor resolved and then rejected; Await returned (value, nil)
C3_Witness ==
    \E t \in Tasks :
        /\ tasks[t].kind = "New" /\ Finished(t) /\ Len(tasks[t].body) = 2
        /\ tasks[t].body[2].op = "reject"
        /\ heap[tasks[t].p].status = FULFILLED
        /\ \E i \in DOMAIN tasks[1].obs :
              /\ tasks[1].obs[i].p = tasks[t].p
              /\ tasks[1].obs[i].value # Zero

\* C4: a panic of an executor or continuation never reaches the calling
\* program; when the promise is still PENDING as the deferred recovery
\* rejects, the promise ends REJECTED with the payload itself if it is an
\* error, else with a non-nil error whose message is the formatted payload.
C4_PanicRejects ==
    \A t \in Tasks :
        (tasks[t].panicked /\ tasks[t].kind \in {"New", "Then", "Catch", "All", "Race"}) =>
            /\ tasks[t].pc \in {"call", "done"}
            /\ tasks[1].pc # "fatal"
            /\ (Finished(t) /\ tasks[t].sawPending) =>
                  /\ heap[tasks[t].p].status = REJECTED
                  /\ heap[tasks[t].p].reason # NilErr
                  /\ tasks[t].r.t = "error" => heap[tasks[t].p].reason = tasks[t].r.e
                  /\ tasks[t].r.t = "string" =>
                        /\ heap[tasks[t].p].reason.kind = "fmt.Errorf"
                        /\ heap[tasks[t].p].reason.msg = tasks[t].r.s
                  /\ tasks[t].r.t = "nil" =>
                        /\ heap[tasks[t].p].reason.kind = "fmt.Errorf"
                        /\ heap[tasks[t].p].reason.msg = "<nil>"

\* an executor panicked with promiseError and a continuation of Then with
\* "random error"; both promises are rejected accordingly
C4_Witness ==
    \E t \in Tasks :
        /\ tasks[t].kind = "Then" /\ tasks[t].panicked /\ Finished(t)
        /\ tasks[t].sawPending
        /\ tasks[t].r = StrPl("random error")
        /\ heap[tasks[t].p].reason.msg = "random error"
        /\ tasks[t].calls = 1

\* source promise of goroutine t rejected with a non-nil error
SrcRejected(t) ==
    /\ tasks[t].src # 0
    /\ heap[tasks[t].src].status = REJECTED
    /\ heap[tasks[t].src].reason # NilErr
SrcFulfilled(t) ==
    /\ tasks[t].src # 0
    /\ heap[tasks[t].src].status = FULFILLED
Own(t) == heap[tasks[t].p]
Src(t) == heap[tasks[t].src]

C5_Safe ==
    \A t \in Tasks :
        (tasks[t].kind = "Then" /\ SrcRejected(t)) =>
            /\ tasks[t].calls = 0
            /\ \/ Own(t).status = PENDING
               \/ Own(t).status = REJECTED /\ Own(t).reason = Src(t).reason
            /\ Finished(t) => Own(t).status = REJECTED
C5_Live ==
    <>[](\A t \in Tasks :
            (tasks[t].kind = "Then" /\ SrcRejected(t)) => Own(t).status = REJECTED)

\* C5: for a source rejected with a non-nil error E, Then never calls its
\* continuation, its promise is never anything but PENDING or REJECTED with
\* that same E, and it is eventually REJECTED; a Then on that promise
\* behaves the same, so E passes down a chain unchanged.
C5_ThenPropagates == []C5_Safe /\ C5_Live

\* the second Then of a chain on a rejected source has ended, REJECTED with
\* the source's error, its continuation not called
C5_Witness ==
    \E t, u \in Tasks :
        /\ tasks[t].kind = "Then" /\ tasks[u].kind = "Then"
        /\ tasks[u].src = tasks[t].p
        /\ SrcRejected(t) /\ Src(t).reason = promiseError
        /\ Finished(u)
        /\ Own(u).status = REJECTED /\ Own(u).reason = promiseError
        /\ tasks[u].calls = 0 /\ tasks[u].cb = CbFn

C6_Safe ==
    \A t \in Tasks :
        (tasks[t].kind = "Then" /\ tasks[t].cb = CbFn /\ SrcFulfilled(t)) =>
            /\ tasks[t].calls <= 1
            /\ tasks[t].calls = 1 => tasks[t].arg = Src(t).value
            /\ Own(t).status \in {PENDING, FULFILLED}
            /\ Own(t).status = FULFILLED =>
                  /\ tasks[t].calls = 1
                  /\ Own(t).value = Fn("Then", Src(t).value)
                  /\ Own(t).reason = NilErr
            /\ Finished(t) => Own(t).status = FULFILLED
C6_Live ==
    <>[](\A t \in Tasks :
            (tasks[t].kind = "Then" /\ tasks[t].cb = CbFn /\ SrcFulfilled(t)) => Own(t).status = FULFILLED)

\* C6: for a source fulfilled with v and a continuation cb that returns a
\* plain value, Then calls cb once, with v, and its promise is never
\* anything but PENDING or FULFILLED with cb(v) and a nil reason, and is
\* eventually FULFILLED.
C6_ThenFulfills == []C6_Safe /\ C6_Live

\* source 1 and cb = v + 1: the Then promise holds 2, and Await returned (2, nil)
C6_Witness ==
    \E t \in Tasks :
        /\ tasks[t].kind = "Then" /\ tasks[t].cb = CbFn /\ Finished(t)
        /\ SrcFulfilled(t) /\ Src(t).value = IntV(1)
        /\ Own(t).value = IntV(2)
        /\ \E i \in DOMAIN tasks[1].obs :
              tasks[1].obs[i] = [p |-> tasks[t].p, value |-> IntV(2), reason |-> NilErr]

\* C7: for a fulfilled source, Catch does not call its continuation and its
\* promise is never REJECTED and ends FULFILLED.
C7_CatchPassesThrough ==
    \A t \in Tasks :
        (UserLink(t, "Catch") /\ SrcFulfilled(t)) =>
            /\ tasks[t].calls = 0
            /\ Own(t).status # REJECTED
            /\ Finished(t) => Own(t).status = FULFILLED

C8_Safe ==
    \A t \in Tasks :
        (tasks[t].kind = "Catch" /\ tasks[t].cb = CbFn /\ SrcRejected(t)) =>
            /\ tasks[t].calls <= 1
            /\ tasks[t].calls = 1 => tasks[t].arg = ErrV(Src(t).reason)
            /\ Own(t).status \in {PENDING, FULFILLED}
            /\ Own(t).status = FULFILLED =>
                  /\ tasks[t].calls = 1
                  /\ Own(t).value = Fn("Catch", ErrV(Src(t).reason))
                  /\ Own(t).reason = NilErr
            /\ Finished(t) => Own(t).status = FULFILLED
            /\ Src(t).value = Zero
            /\ \A u \in Tasks : \A i \in DOMAIN tasks[u].obs :
                  tasks[u].obs[i].p = tasks[t].src =>
                      /\ tasks[u].obs[i].value = Zero
                      /\ tasks[u].obs[i].reason = Src(t).reason
C8_Live ==
    <>[](\A t \in Tasks :
            (tasks[t].kind = "Catch" /\ tasks[t].cb = CbFn /\ SrcRejected(t)) => Own(t).status = FULFILLED)

\* C8: for a source rejected with a non-nil error E and a continuation cb that
\* returns a plain value, Catch calls cb once, with E, its promise is never
\* anything but PENDING or FULFILLED with cb(E) and a nil reason, and is
\* eventually FULFILLED; the source stays REJECTED with E and every Await on
\* it returns (zero value, E).
C8_CatchRecovers == []C8_Safe /\ C8_Live

\* the Catch promise holds cb(promiseError); the program awaited the source
\* before and after it awaited the Catch promise
C8_Witness ==
    \E t \in Tasks :
        /\ tasks[t].kind = "Catch" /\ tasks[t].cb = CbFn /\ Finished(t)
        /\ SrcRejected(t)
        /\ Own(t).value = StrV(promiseError)
        /\ Len(tasks[1].obs) = 3
        /\ tasks[1].obs[1] = [p |-> tasks[t].src, value |-> Zero, reason |-> promiseError]
        /\ tasks[1].obs[2] = [p |-> tasks[t].p, value |-> StrV(promiseError), reason |-> NilErr]
        /\ tasks[1].obs[3] = tasks[1].obs[1]

\* C9: when the continuation of Then or Catch has returned promise rp, the
\* promise of Then / Catch is settled only once rp is, and then with rp's
\* status, value and reason.
C9_Flattens ==
    \A t \in Tasks :
        (tasks[t].kind \in {"Then", "Catch"} /\ tasks[t].rp # 0 /\ Settled(tasks[t].p)) =>
            /\ Settled(tasks[t].rp)
            /\ Own(t).status = heap[tasks[t].rp].status
            /\ Own(t).value = heap[tasks[t].rp].value
            /\ Own(t).reason = heap[tasks[t].rp].reason

AllFulfilled(t) ==
    \A i \in DOMAIN tasks[t].ps : heap[tasks[t].ps[i]].status = FULFILLED
Written(t) ==
    /\ tasks[t].values # 0
    /\ Len(slices[tasks[t].values]) = Len(tasks[t].ps)
    /\ \A i \in DOMAIN tasks[t].ps :
          slices[tasks[t].values][i] = heap[tasks[t].ps[i]].value

C10_Safe ==
    \A t \in Tasks :
        (tasks[t].kind = "All" /\ AllFulfilled(t)) =>
            /\ Own(t).status \in {PENDING, FULFILLED}
            /\ (tasks[t].pc = "call" /\ tasks[t].call.fn = "resolve") => Written(t)
            /\ Own(t).status = FULFILLED =>
                  /\ Written(t)
                  /\ Own(t).value = SliceV(tasks[t].values)
                  /\ Own(t).reason = NilErr
            /\ Finished(t) => Own(t).status = FULFILLED
C10_Live ==
    <>[](\A t \in Tasks :
            (tasks[t].kind = "All" /\ AllFulfilled(t)) => Own(t).status = FULFILLED)

\* C10: when all constituents of an All are fulfilled, its promise is never
\* anything but PENDING or FULFILLED, it is resolved only when the slice has
\* one element per constituent and element i is the value of constituent i,
\* whatever the order the constituents completed in, and it is eventually
\* FULFILLED.
C10_AllAligned == []C10_Safe /\ C10_Live

\* All of two constituents is FULFILLED with <<1, 2>> and Await returned the slice
C10_Witness ==
    \E t \in Tasks :
        /\ tasks[t].kind = "All" /\ Finished(t) /\ Len(tasks[t].ps) = 2
        /\ Own(t).status = FULFILLED
        /\ slices[tasks[t].values] = <<IntV(1), IntV(2)>>
        /\ \E i \in DOMAIN tasks[1].obs :
              tasks[1].obs[i] = [p |-> tasks[t].p, value |-> SliceV(tasks[t].values),
                                 reason |-> NilErr]

Constituents(t) == {tasks[t].ps[i] : i \in DOMAIN tasks[t].ps}
RejectedOf(t) == {p \in Constituents(t) : heap[p].status = REJECTED}
SettledOf(t) == {p \in Constituents(t) : Settled(p)}
\* promise p was built by Resolve or Reject: no goroutine was started for it.
\* It was settled when it was built, so before any promise with a higher
\* address existed.
BuiltSettled(p) == \A u \in Tasks : tasks[u].p # p
\* of the settled promises S, the one known to have settled first, if any
Earliest(S) == {p \in S : BuiltSettled(p) /\ \A q \in S : p <= q}
\* the pairs the program's Await calls on promise p returned
Awaited(p) ==
    {[value |-> tasks[1].obs[i].value, reason |-> tasks[1].obs[i].reason] :
        i \in {j \in DOMAIN tasks[1].obs : tasks[1].obs[j].p = p}}

\* C11: when constituent p of All was REJECTED before every other REJECTED
\* constituent, the promise of All is never FULFILLED, it is REJECTED only
\* with the reason of p, it is REJECTED when All's executor has ended, and
\* Await on it returns (zero value, reason of p).
C11_AllFirstRejection ==
    \A t \in Tasks : \A p \in Earliest(RejectedOf(t)) :
        tasks[t].kind = "All" =>
            /\ Own(t).status # FULFILLED
            /\ Own(t).status = REJECTED => Own(t).reason = heap[p].reason
            /\ Finished(t) => Own(t).status = REJECTED
            /\ Awaited(tasks[t].p) \subseteq {[value |-> Zero, reason |-> heap[p].reason]}

\* C12: the promise of Race is settled only once a constituent is, and when
\* constituent p settled before every other one, with the status, value and
\* reason of p, whatever its place in the list and whatever the others did
\* later.
C12_RaceFirstSettled ==
    \A t \in Tasks :
        (tasks[t].kind = "Race" /\ Settled(tasks[t].p)) =>
            /\ SettledOf(t) # {}
            /\ \A p \in Earliest(SettledOf(t)) :
                  /\ Own(t).status = heap[p].status
                  /\ Own(t).value = heap[p].value
                  /\ Own(t).reason = heap[p].reason

\* C13: under fair scheduling the promise of an All whose constituents are
\* all settled, and the promise of a Race with a settled constituent, is
\* eventually settled, for every number of constituents and every order in
\* which they fulfil or reject.
C13_AggregatesSettle ==
    <>[](\A t \in Tasks :
            /\ (tasks[t].kind = "All" /\ SettledOf(t) = Constituents(t)) =>
                  Settled(tasks[t].p)
            /\ (tasks[t].kind = "Race" /\ SettledOf(t) # {}) =>
                  Settled(tasks[t].p))

\* an All of three constituents that all rejected has settled and its
\* executor has ended
C13_Witness ==
    \E t \in Tasks :
        /\ tasks[t].kind = "All" /\ Finished(t)
        /\ Cardinality(RejectedOf(t)) = 3
        /\ Settled(tasks[t].p)

\* the result of the call the program has just returned from
Result == tasks[1].vars[Len(tasks[1].vars)]

\* C14: a call of All or Race with no promises returns nil, allocates no
\* promise and starts no goroutine; a call with one or more promises
\* returns a new, non-nil promise.
C14_EmptyReturnsNil ==
    [][((At(1, "All") \/ At(1, "Race")) /\ tasks'[1].ip # tasks[1].ip) =>
          IF Len(Arg(1).ps) = 0
          THEN /\ Result' = 0
               /\ heap' = heap
               /\ Len(tasks') = Len(tasks)
          ELSE /\ Result' \in DOMAIN heap' \ DOMAIN heap
               /\ Len(tasks') = Len(tasks) + 1]_vars

\* All() has returned nil: no promise and no goroutine but the program's exist
C14_Witness ==
    /\ tasks[1].body[1].op = "All"
    /\ tasks[1].vars = <<0>>
    /\ heap = <<>>
    /\ Len(tasks) = 1

\* the call at place i of the program is a misuse: New with a nil executor,
\* Then or Catch with a nil source
MisuseAt(i) ==
    LET c == tasks[1].body[i]
    IN  \/ c.op = "New" /\ c.exec.nil
        \/ c.op \in {"Then", "Catch"} /\ Ref(1, c.src) = 0

\* C15: the program never gets past a call of New with a nil executor or of
\* Then or Catch with a nil source, so the call returns no promise, and no
\* goroutine of Then or Catch runs for a nil source.
C15_MisuseIsFatal ==
    /\ \A i \in DOMAIN tasks[1].body : tasks[1].ip > i => ~MisuseAt(i)
    /\ \A u \in Tasks : tasks[u].kind \in {"Then", "Catch"} => tasks[u].src # 0

\* the executor of All or Race that made channel c
Receiver(c) == {a \in Tasks : tasks[a].kind \in {"All", "Race"} /\ c \in {tasks[a].okc, tasks[a].errc}}

\* C16: no goroutine that All or Race started for a constituent is blocked for
\* good in its send: whenever one is at its send, the channel has room or
\* the executor that receives from the channel has not ended yet.
C16_NoSenderBlocked ==
    \A t \in Tasks :
        tasks[t].pc = "send" =>
            \/ CanSend(tasks[t].cb.ch)
            \/ \E a \in Receiver(tasks[t].cb.ch) : ~Finished(a)

\* C17: for a source that is REJECTED with a nil reason, Then does not call
\* its continuation, and Catch has called its continuation when its
\* goroutine has ended.
C17_StatusDecides ==
    \A t \in Tasks :
        (/\ UserLink(t, "Then") \/ UserLink(t, "Catch")
         /\ tasks[t].src # 0
         /\ Src(t).status = REJECTED
         /\ Src(t).reason = NilErr) =>
            /\ tasks[t].kind = "Then" => tasks[t].calls = 0
            /\ (tasks[t].kind = "Catch" /\ Finished(t)) => tasks[t].calls = 1

\* the goroutine New started for promise p
Owner(p) ==
    {t \in Tasks : tasks[t].p = p /\ tasks[t].kind \in {"New", "Then", "Catch", "All", "Race"}}
\* goroutine t is in p.Await()
Waiting(t, p) ==
    \/ At(t, "Await") /\ Ref(t, Arg(t).src) = p
    \/ tasks[t].kind \in {"waiter", "Then", "Catch"} /\ tasks[t].pc = "await" /\ tasks[t].src = p

C18_Safe ==
    \A t \in Tasks :
        (tasks[t].kind \in {"New", "Then", "Catch", "All", "Race"} /\ Finished(t)) =>
            /\ Settled(tasks[t].p)
            /\ (tasks[t].sawPending /\ ~tasks[t].panicked) =>
                  /\ Own(t).status = REJECTED
                  /\ Own(t).reason = Errorf("<nil>")
                  /\ Own(t).reason # NilErr
C18_Live ==
    <>[](\A t \in Tasks : \A p \in Promises :
            Waiting(t, p) => \E o \in Owner(p) : ~Finished(o))

\* C18: a promise made by New is settled once its goroutine has ended; when
\* the executor returned, without a panic, while the promise was PENDING,
\* the promise is REJECTED with the error "<nil>"; and under fair scheduling
\* no Await on a promise whose goroutine has ended keeps waiting.
C18_ExecutorEndSettles == []C18_Safe /\ C18_Live

\* an executor that returns without settling: its promise is REJECTED with
\* "<nil>" and the program's Await has returned (zero value, that error)
C18_Witness ==
    \E t \in Tasks :
        /\ tasks[t].kind = "New" /\ tasks[t].body = <<>> /\ Finished(t)
        /\ tasks[t].sawPending
        /\ Own(t).status = REJECTED
        /\ [value |-> Zero, reason |-> Errorf("<nil>")] \in Awaited(tasks[t].p)

\* C19: the counter of p.wg is 1 while p is PENDING and 0 once p is settled,
\* never anything else; so no Await has returned for a PENDING promise, and
\* Await on a promise built by Resolve or Reject does not block.
C19_Counter ==
    /\ \A p \in Promises :
          /\ heap[p].wg = (IF heap[p].status = PENDING THEN 1 ELSE 0)
          /\ BuiltSettled(p) => Await(p)
    /\ \A t \in Tasks : \A i \in DOMAIN tasks[t].obs :
          heap[tasks[t].obs[i].p].status # PENDING

\* an executor has called resolve, reject and, through its deferred function,
\* reject again; the counter is 0 and the program's Await has returned
C19_Witness ==
    \E t \in Tasks :
        /\ tasks[t].kind = "New" /\ Finished(t) /\ Len(tasks[t].body) = 2
        /\ tasks[t].body[1].op = "resolve" /\ tasks[t].body[2].op = "reject"
        /\ Own(t).wg = 0
        /\ Awaited(tasks[t].p) # {}

FulfilledOf(t) == {p \in Constituents(t) : heap[p].status = FULFILLED}

\* C20: for an All or Race none of whose constituents is REJECTED with a nil
\* reason: its promise, when REJECTED, holds the reason of a constituent
\* that is REJECTED; the promise of Race, when FULFILLED, holds the value of
\* a constituent that is FULFILLED; the promise of All is FULFILLED only
\* when every constituent is.
C20_NothingInvented ==
    \A t \in Tasks :
        (/\ tasks[t].kind \in {"All", "Race"}
         /\ \A p \in RejectedOf(t) : heap[p].reason # NilErr) =>
            /\ Own(t).status = REJECTED =>
                  \E p \in RejectedOf(t) : Own(t).reason = heap[p].reason
            /\ (tasks[t].kind = "Race" /\ Own(t).status = FULFILLED) =>
                  \E p \in FulfilledOf(t) : Own(t).value = heap[p].value
            /\ (tasks[t].kind = "All" /\ Own(t).status = FULFILLED) =>
                  FulfilledOf(t) = Constituents(t)

\* a Race of a fulfilling and a rejecting constituent has ended REJECTED with
\* the reason of the rejecting one, the other one being FULFILLED
C20_Witness ==
    \E t \in Tasks :
        /\ tasks[t].kind = "Race" /\ Finished(t)
        /\ Own(t).status = REJECTED
        /\ FulfilledOf(t) # {}
        /\ \E p \in RejectedOf(t) : Own(t).reason = heap[p].reason /\ heap[p].reason # NilErr

====
